---- MODULE Spec2Model ----
(***************************************************************************)
(* A model of nxc/protocols/nfs.py: the NFS enumeration engine of NetExec.  *)
(*                                                                         *)
(* The remote service (portmap, mount, NFSv3) is the environment: every    *)
(* remote call answers with one of the outcomes the client code can        *)
(* observe (a well-formed answer, a refusal, a malformed answer, a raised  *)
(* exception).  The pure parts of the program (get_permissions, list_dir   *)
(* and its inner process_entries, convert_size, export_info and the        *)
(* findall over the printed export table) are operators; the session       *)
(* operations (shares, enum_shares, uid_brute / list_exported_shares) are  *)
(* actions, one per loop iteration.                                        *)
(***************************************************************************)
EXTENDS Naturals, Integers, Sequences, FiniteSets, TLC

\* ------------------------------------------------------------------ bounds
MaxChain    == 2   \* longest entry chain returned for a share's root handle
MaxDepth    == 2   \* largest recursion depth asked of list_dir
MaxUid      == 2   \* largest value of args.uid_brute
MaxShares   == 2   \* longest export list
MaxExp      == 10  \* largest power of 1024 in a size given to convert_size

\* ------------------------------------------------------- program constants
ACCESS3_READ    == 1
ACCESS3_MODIFY  == 4
ACCESS3_EXECUTE == 32
NF3REG          == 1   \* entry type "file"
NF3DIR          == 2   \* entry type "folder", the literal of line 91

\* The file handles the remote hands out: 1 is the root of the mounted share.
Handles == {1, 2}
Caps    == {ACCESS3_READ, ACCESS3_MODIFY, ACCESS3_EXECUTE}
Names   == {"a", "b"}

\* The substrings the failure classifier looks for in str(e).  An error
\* message is modelled by the set of these substrings that occur in it.
REJECTEDCRED == "RPC_AUTH_ERROR: AUTH_REJECTEDCRED"
TOOWEAK      == "RPC_AUTH_ERROR: AUTH_TOOWEAK"
INSUFFICIENT == "Insufficient Permissions"
Markers      == {REJECTEDCRED, TOOWEAK, INSUFFICIENT}
NoMarker     == {}

\* ------------------------------------------------------ remote: access call
\* What nfs3.access(handle, cap, auth) can do: answer {"resok": {"access": v}},
\* answer without "resok" (resfail), answer something that is no dict, raise.
AccessValues == {0, ACCESS3_READ, ACCESS3_MODIFY, ACCESS3_EXECUTE,
                 ACCESS3_READ + ACCESS3_MODIFY + ACCESS3_EXECUTE}
AccessResps ==
    [kind : {"resok"}, access : AccessValues]
      \cup [kind : {"resfail", "malformed", "raise"}, access : {0}]

Granted(cap) == [kind |-> "resok", access |-> cap]
Denied       == [kind |-> "resok", access |-> 0]
AccRaise     == [kind |-> "raise", access |-> 0]
AccMalformed == [kind |-> "malformed", access |-> 0]

\* The expression of one capability check,
\*   access(handle, CAP, auth).get("resok", {}).get("access", 0) is CAP
\* exc: evaluating it raised (the call raised, or the answer has no .get).
\* ("is" on the small integers 1, 4, 32 is equality in CPython.)
AccessExpr(resp, cap) ==
    IF resp.kind \in {"raise", "malformed"} THEN [exc |-> TRUE, val |-> FALSE]
    ELSE IF resp.kind = "resok" THEN [exc |-> FALSE, val |-> resp.access = cap]
    ELSE [exc |-> FALSE, val |-> 0 = cap]

\* The same check with the except clause missing.
CheckAccessUncaught(resp, cap) == AccessExpr(resp, cap)

\* try: perm = <AccessExpr>  except Exception: perm = False
CheckAccess(resp, cap) ==
    LET r == AccessExpr(resp, cap)
    IN  IF r.exc THEN [exc |-> FALSE, val |-> FALSE] ELSE r

\* get_permissions(file_handle): resps is the remote's answer to each of the
\* three access calls, [Caps -> AccessResps].  raised: an exception left the
\* function, and then there is no triple.
GetPermissions(resps) ==
    LET r == CheckAccess(resps[ACCESS3_READ], ACCESS3_READ)
        w == CheckAccess(resps[ACCESS3_MODIFY], ACCESS3_MODIFY)
        x == CheckAccess(resps[ACCESS3_EXECUTE], ACCESS3_EXECUTE)
    IN  IF r.exc \/ w.exc \/ x.exc
        THEN [raised |-> TRUE, read |-> FALSE, write |-> FALSE, execute |-> FALSE]
        ELSE [raised |-> FALSE, read |-> r.val, write |-> w.val, execute |-> x.val]

\* The three access calls get_permissions issues on a handle, in order.
AccessCalls(h) ==
    << [op |-> "access", handle |-> h, arg |-> ACCESS3_READ],
       [op |-> "access", handle |-> h, arg |-> ACCESS3_MODIFY],
       [op |-> "access", handle |-> h, arg |-> ACCESS3_EXECUTE] >>

ReaddirCall(h, recurse) == << [op |-> "readdirplus", handle |-> h, arg |-> recurse] >>

\* ------------------------------------------------- remote: directory entries
\* One entry of a readdirplus reply.  hasName: the "name" key is there; utf8:
\* the name decodes; present: name_attributes.present; hasType: the attributes
\* carry "type"; hasHandle: name_handle.handle.data is there; hasNext: the
\* "nextentry" key is there.
MkEntry(hn, n, u, p, ht, t, hh, h, nx) ==
    [hasName |-> hn, name |-> n, utf8 |-> u, present |-> p, hasType |-> ht,
     type |-> t, hasHandle |-> hh, handle |-> h, hasNext |-> nx]

File(n, h)   == MkEntry(TRUE, n, TRUE, TRUE, TRUE, NF3REG, TRUE, h, TRUE)
Dir(n, h)    == MkEntry(TRUE, n, TRUE, TRUE, TRUE, NF3DIR, TRUE, h, TRUE)
NoAttr(n)    == MkEntry(TRUE, n, TRUE, FALSE, FALSE, NF3REG, FALSE, 1, TRUE)
Dot          == Dir(".", 1)
DotDot       == Dir("..", 1)
NoName       == MkEntry(FALSE, "a", TRUE, TRUE, TRUE, NF3REG, TRUE, 1, TRUE)
BadUtf8      == MkEntry(TRUE, "a", FALSE, TRUE, TRUE, NF3REG, TRUE, 1, TRUE)
NoType       == MkEntry(TRUE, "a", TRUE, TRUE, FALSE, NF3REG, TRUE, 1, TRUE)
NoHandle(t)  == MkEntry(TRUE, "a", TRUE, TRUE, TRUE, t, FALSE, 1, TRUE)
NoNext       == MkEntry(TRUE, "b", TRUE, TRUE, TRUE, NF3REG, TRUE, 1, FALSE)

WellFormedEntries ==
    {File("a", 1), File("b", 2)}
      \cup {Dir(n, h) : n \in Names, h \in Handles}
      \cup {NoAttr("a"), Dot, DotDot, NoName}
MalformedEntries ==
    {BadUtf8, NoType, NoHandle(NF3REG), NoHandle(NF3DIR), NoNext}
Entries == WellFormedEntries \cup MalformedEntries

RECURSIVE SeqsUpTo(_, _)
SeqsUpTo(S, n) ==
    IF n = 0 THEN {<< >>}
    ELSE LET shorter == SeqsUpTo(S, n - 1)
         IN  shorter \cup {Append(s, x) : s \in {t \in shorter : Len(t) = n - 1}, x \in S}

\* The concatenation of a sequence of sequences.
RECURSIVE Flatten(_)
Flatten(ss) == IF ss = << >> THEN << >> ELSE Head(ss) \o Flatten(Tail(ss))

\* What nfs3.readdirplus(handle, auth) can do: answer resok with an entry
\* chain, answer resfail, answer neither key, raise with some message.
DirOk(chain)  == [kind |-> "resok", entries |-> chain, err |-> NoMarker]
DirFail       == [kind |-> "resfail", entries |-> << >>, err |-> NoMarker]
DirMalformed  == [kind |-> "malformed", entries |-> << >>, err |-> NoMarker]
DirRaise(m)   == [kind |-> "raise", entries |-> << >>, err |-> m]
DirErrors     == {DirFail, DirMalformed, DirRaise(NoMarker), DirRaise({REJECTEDCRED})}

\* The root handle answers with any chain of at most MaxChain entries; every
\* other handle with a chain of at most one entry (which may point back at the
\* root or at itself: the handles may form a cycle).
RootResponses == {DirOk(c) : c \in SeqsUpTo(Entries, MaxChain)} \cup DirErrors
SubResponses  == {DirOk(<< >>)} \cup {DirOk(<< e >>) : e \in Entries} \cup DirErrors

\* The remote file systems a walk is run against: a readdirplus answer per handle.
FileSystems ==
    {[h \in Handles |-> IF h = 1 THEN r ELSE s[h]] :
        r \in RootResponses, s \in [Handles \ {1} -> SubResponses]}

\* The access answers per handle the walks are run against: one of three
\* profiles for the root, the next one for the other handles.
AccessProfiles ==
    << [c \in Caps |-> Granted(c)],
       [c \in Caps |-> IF c = ACCESS3_MODIFY THEN AccRaise ELSE Granted(c)],
       [c \in Caps |-> IF c = ACCESS3_READ THEN Granted(c) ELSE Denied] >>
AccessWorlds ==
    {[h \in Handles |-> AccessProfiles[((k + h) % 3) + 1]] : k \in 0..2}

\* ------------------------------------------------------------------ list_dir
Record(path, p) ==
    [path |-> path, read |-> p.read, write |-> p.write, execute |-> p.execute]

\* What a call of list_dir or process_entries did.  ret: "list" (returned
\* recs), "none" (returned None), "raise" (raised err).  calls: the remote
\* calls issued, in order.  caught and seen are history: whether an except
\* clause of process_entries ran, and the records that had been collected
\* when the first one ran.
Returned(recs, calls) ==
    [ret |-> "list", recs |-> recs, err |-> NoMarker, calls |-> calls,
     caught |-> FALSE, seen |-> recs]
ReturnedNone(calls, seen) ==
    [ret |-> "none", recs |-> << >>, err |-> NoMarker, calls |-> calls,
     caught |-> TRUE, seen |-> seen]
Raised(err, calls) ==
    [ret |-> "raise", recs |-> << >>, err |-> err, calls |-> calls,
     caught |-> FALSE, seen |-> << >>]

RECURSIVE ListDir(_, _, _, _, _)
RECURSIVE ProcessEntries(_, _, _, _, _)

\* The test of line 88 without its second conjunct.
HasListedNameNoDotFilter(entry) == entry.hasName

\* Line 88: "name" in entry and entry["name"] not in [b".", b".."].
HasListedName(entry) == entry.hasName /\ entry.name \notin {".", ".."}

\* The recursion of line 93 with the depth left set to 0 instead: one level is
\* expanded whatever the budget.
NextDepthZero(recurse) == 0

\* Line 93: recurse=recurse - 1.
NextDepth(recurse) == recurse - 1

\* Lines 88-96: the body of the loop for one entry, before "nextentry" is
\* read.  exc: an exception left the body.
EntryBody(fs, acc, entry, path, recurse) ==
    LET ok(recs, calls)   == [exc |-> FALSE, recs |-> recs, calls |-> calls, seen |-> recs]
        exc(calls, seen)  == [exc |-> TRUE, recs |-> << >>, calls |-> calls, seen |-> seen]
    IN
    IF ~HasListedName(entry) THEN ok(<< >>, << >>)
    ELSE IF ~entry.utf8 THEN exc(<< >>, << >>)
    ELSE
      LET item_path == path \o "/" \o entry.name IN
      IF ~entry.present THEN ok(<< >>, << >>)
      ELSE IF ~entry.hasType THEN exc(<< >>, << >>)
      ELSE IF entry.type = NF3DIR /\ recurse > 0 THEN
        IF ~entry.hasHandle THEN exc(<< >>, << >>)
        ELSE
          LET sub == ListDir(fs, acc, entry.handle, item_path, NextDepth(recurse)) IN
          IF sub.ret = "list" THEN ok(sub.recs, sub.calls)
          ELSE exc(sub.calls, sub.seen)
      ELSE
        IF ~entry.hasHandle THEN exc(<< >>, << >>)
        ELSE ok(<< Record(item_path, GetPermissions(acc[entry.handle])) >>,
                AccessCalls(entry.handle))

\* process_entries with the "nextentry" link never followed.
ProcessEntriesHeadOnly(fs, acc, entries, path, recurse) ==
    IF entries = << >> THEN Returned(<< >>, << >>)
    ELSE
      LET body == EntryBody(fs, acc, Head(entries), path, recurse) IN
      IF body.exc THEN ReturnedNone(body.calls, body.seen)
      ELSE Returned(body.recs, body.calls)

\* process_entries with line 100 before lines 88-96: the records of the later
\* siblings are collected before those of the entry itself.
ProcessEntriesSiblingsFirst(fs, acc, entries, path, recurse) ==
    IF entries = << >> THEN Returned(<< >>, << >>)
    ELSE
      LET entry == Head(entries)
          body  == EntryBody(fs, acc, entry, path, recurse)
      IN
      IF body.exc THEN ReturnedNone(body.calls, body.seen)
      ELSE IF ~entry.hasNext THEN ReturnedNone(body.calls, body.recs)
      ELSE IF Tail(entries) = << >> THEN Returned(body.recs, body.calls)
      ELSE
        LET rest == ProcessEntries(fs, acc, Tail(entries), path, recurse) IN
        IF rest.ret = "list"
        THEN Returned(rest.recs \o body.recs, rest.calls \o body.calls)
        ELSE ReturnedNone(rest.calls \o body.calls, rest.seen \o body.recs)

\* Lines 84-104.  entries is the chain: its head is the entry the for loop
\* visits, its tail is that entry's "nextentry".
ProcessEntries(fs, acc, entries, path, recurse) ==
    IF entries = << >> THEN Returned(<< >>, << >>)
    ELSE
      LET entry == Head(entries)
          body  == EntryBody(fs, acc, entry, path, recurse)
      IN
      IF body.exc THEN ReturnedNone(body.calls, body.seen)
      ELSE IF ~entry.hasNext THEN ReturnedNone(body.calls, body.recs)
      ELSE IF Tail(entries) = << >> THEN Returned(body.recs, body.calls)
      ELSE
        LET rest == ProcessEntries(fs, acc, Tail(entries), path, recurse) IN
        IF rest.ret = "list"
        THEN Returned(body.recs \o rest.recs, body.calls \o rest.calls)
        ELSE ReturnedNone(body.calls \o rest.calls, body.recs \o rest.seen)

\* list_dir with the recurse == 0 case (lines 106-108) missing.
ListDirNoBaseCase(fs, acc, file_handle, path, recurse) ==
    LET items == fs[file_handle]
        rd    == ReaddirCall(file_handle, recurse)
    IN
    IF items.kind = "raise" THEN Raised(items.err, rd)
    ELSE IF items.kind = "resfail" THEN Raised({INSUFFICIENT}, rd)
    ELSE IF items.kind = "malformed" THEN Raised(NoMarker, rd)
    ELSE
      LET r == ProcessEntries(fs, acc, items.entries, path, recurse) IN
      [r EXCEPT !.calls = rd \o r.calls]

\* Lines 82-116.
ListDir(fs, acc, file_handle, path, recurse) ==
    IF recurse = 0
    THEN Returned(<< Record(path \o "/", GetPermissions(acc[file_handle])) >>,
                  AccessCalls(file_handle))
    ELSE
      LET items == fs[file_handle]
          rd    == ReaddirCall(file_handle, recurse)
      IN
      IF items.kind = "raise" THEN Raised(items.err, rd)
      ELSE IF items.kind = "resfail" THEN Raised({INSUFFICIENT}, rd)
      ELSE IF items.kind = "malformed" THEN Raised(NoMarker, rd)
      ELSE
        LET r == ProcessEntries(fs, acc, items.entries, path, recurse) IN
        [r EXCEPT !.calls = rd \o r.calls]

\* ------------------------------------------------------------------- state
VARIABLES
    \* the session (one nfs connection object)
    pc,          \* "new", "idle", "dead", or the operation in progress
    args,        \* the static configuration: uid, uid_brute, enum_shares
    auth,        \* self.auth
    nfs3,        \* self.nfs3: "unset", "connected", "disconnected"
    shares,      \* the export list of the operation in progress
    uid,         \* list_exported_shares: the UID of the outer loop
    idx,         \* the position of the share loop, 1..Len(shares)+1
    white_list,  \* list_exported_shares: the shares already listed
    mounted,     \* the shares mounted and not unmounted
    log,         \* what the last step sent to the reporting sink
    hist,        \* history: the iterations of the operation in progress
    attempt,     \* history: what the remote made of the latest iteration
    escaped,     \* whether an exception left the last operation
    \* the calls of list_dir and get_permissions taken alone
    remote,      \* the file system and access answers a walk runs against
    call,        \* the arguments of the call
    ret,         \* what the call returned, "pending" before it
    resps,       \* the three access answers a get_permissions call gets
    perm,        \* what get_permissions returned, "pending" before it
    \* the calls of convert_size taken alone
    size,        \* the argument of the call
    text,        \* what convert_size returned, "pending" before it
    \* the export parsers taken alone
    export,      \* the export table mount.export() answered with
    parsed       \* what export_info and the findall of line 154 made of it

sessionVars == << pc, args, auth, nfs3, shares, uid, idx, white_list, mounted,
                  log, hist, attempt, escaped >>
callVars    == << remote, call, ret, resps, perm, size, text, export, parsed >>
vars        == << pc, args, auth, nfs3, shares, uid, idx, white_list, mounted,
                  log, hist, attempt, escaped, remote, call, ret, resps, perm,
                  size, text, export, parsed >>

ShareNames == {"/data", "/backup"}

\* __init__ (lines 10-24): the identity context and the unconnected session.
InitAuth(u) ==
    [flavor |-> 1, machine_name |-> "TOKEN", uid |-> u, gid |-> 0, aux_gid |-> << >>]

SessionNew(a) ==
    /\ pc = "new"
    /\ args = a
    /\ auth = InitAuth(a.uid)
    /\ nfs3 = "unset"
    /\ shares = << >>
    /\ uid = 0
    /\ idx = 1
    /\ white_list = << >>
    /\ mounted = {}
    /\ log = << >>
    /\ hist = << >>
    /\ attempt = [mnt |-> "-", walk |-> "-"]
    /\ escaped = FALSE

\* The value of ret and of perm before the call.
Pending     == [ret |-> "pending"]
PermPending == [pending |-> TRUE]
TextPending == [pending |-> TRUE]
WalkDone    == ret.ret # "pending"
PermDone    == "read" \in DOMAIN perm

\* A size as convert_size is given it: hi * 1024^exp + lo * 1024^(exp - 1),
\* the two leading base-1024 digits of the number and the count of digits
\* below the first (lo is 0 when exp is 0); hi = 0 is the size 0.
Size(hi, lo, exp) == [hi |-> hi, lo |-> lo, exp |-> exp]
ZeroSize == Size(0, 0, 0)

NoSize ==
    /\ size = ZeroSize
    /\ text = TextPending

\* The value of parsed before either parser ran.
NotParsed == [info |-> [pending |-> TRUE], shares |-> [pending |-> TRUE]]

NoExport ==
    /\ export = << >>
    /\ parsed = NotParsed

NoCall ==
    /\ remote = [fs |-> [h \in Handles |-> DirFail],
                 acc |-> [h \in Handles |-> [c \in Caps |-> Denied]]]
    /\ call = [handle |-> 1, path |-> "/data", recurse |-> 0]
    /\ ret = Pending
    /\ resps = [c \in Caps |-> Denied]
    /\ perm = PermPending
    /\ NoSize
    /\ NoExport

DefaultArgs == [uid |-> 0, uid_brute |-> 0, enum_shares |-> 1]

\* ----------------------------------------------- get_permissions taken alone
PermInit ==
    /\ SessionNew(DefaultArgs)
    /\ remote = [fs |-> [h \in Handles |-> DirFail],
                 acc |-> [h \in Handles |-> [c \in Caps |-> Denied]]]
    /\ call = [handle |-> 1, path |-> "/data", recurse |-> 0]
    /\ ret = Pending
    /\ resps \in [Caps -> AccessResps]
    /\ perm = PermPending
    /\ NoSize
    /\ NoExport

GetPermissionsCall ==
    /\ perm = PermPending
    /\ perm' = GetPermissions(resps)
    /\ UNCHANGED << sessionVars, remote, call, ret, resps, size, text, export, parsed >>

SpecPerm == PermInit /\ [][GetPermissionsCall]_vars

\* ------------------------------------------------------ list_dir taken alone
WalkInit ==
    /\ SessionNew(DefaultArgs)
    /\ remote \in [fs : FileSystems, acc : AccessWorlds]
    /\ call \in [handle : {1}, path : {"/data"}, recurse : 0..MaxDepth]
    /\ ret = Pending
    /\ resps = [c \in Caps |-> Denied]
    /\ perm = PermPending
    /\ NoSize
    /\ NoExport

ListDirCall ==
    /\ ret = Pending
    /\ ret' = ListDir(remote.fs, remote.acc, call.handle, call.path, call.recurse)
    /\ UNCHANGED << sessionVars, remote, call, resps, perm, size, text, export, parsed >>

SpecWalk == WalkInit /\ [][ListDirCall]_vars

\* ------------------------------------------------------------- the session
\* What the session operations send to the reporting sink.  what is the kind
\* of line; share, uid and rec are the values formatted into it.
NoRec == [path |-> "", read |-> FALSE, write |-> FALSE, execute |-> FALSE]
Ev(lvl, what, share) ==
    [lvl |-> lvl, what |-> what, share |-> share, uid |-> 0, rec |-> NoRec]
EvEntry(what, share, u, rec) ==
    [lvl |-> "highlight", what |-> what, share |-> share, uid |-> u, rec |-> rec]

\* convert_size (lines 274-281), on sizes below 100 MB (ten times the size
\* has to fit a 32-bit integer of TLC).  exc: it raised (math.log of a
\* negative number, or a unit index past "YB"); otherwise the text is
\* tenths/10 followed by unit.
UnitNames == << "B", "KB", "MB", "GB", "TB", "PB", "EB", "ZB", "YB" >>

RECURSIVE FloorLog1024(_)
FloorLog1024(n) == IF n < 1024 THEN 0 ELSE 1 + FloorLog1024(n \div 1024)

RECURSIVE Pow1024(_)
Pow1024(i) == IF i = 0 THEN 1 ELSE 1024 * Pow1024(i - 1)

\* round(size_bytes / p, 1), in tenths: to nearest, ties to even (the
\* quotient is a binary fraction, so a tie is exact in floating point).
RoundTenths(size_bytes, p) ==
    LET q == (size_bytes * 10) \div p
        r == (size_bytes * 10) % p
    IN  IF 2 * r < p THEN q
        ELSE IF 2 * r > p THEN q + 1
        ELSE IF q % 2 = 0 THEN q ELSE q + 1

ConvertSize(size_bytes) ==
    IF size_bytes = 0 THEN [exc |-> FALSE, tenths |-> 0, unit |-> "B"]
    ELSE IF size_bytes < 0 THEN [exc |-> TRUE, tenths |-> 0, unit |-> ""]
    ELSE LET i == FloorLog1024(size_bytes) IN
         IF i + 1 > Len(UnitNames) THEN [exc |-> TRUE, tenths |-> 0, unit |-> ""]
         ELSE [exc |-> FALSE,
               tenths |-> RoundTenths(size_bytes, Pow1024(i)),
               unit |-> UnitNames[i + 1]]

\* convert_size (lines 274-281) on a size given by its leading base-1024
\* digits, which reaches past the 32-bit integers: floor(log(size, 1024)) is
\* the count of digits below the first, size / 1024^i is hi + lo/1024, and
\* size_name[i] raises IndexError when i is past the last unit.
ConvertSizeDigits(sz) ==
    IF sz.hi = 0 THEN [exc |-> FALSE, tenths |-> 0, unit |-> "B"]
    ELSE LET i == sz.exp IN
         IF i + 1 > Len(UnitNames) THEN [exc |-> TRUE, tenths |-> 0, unit |-> ""]
         ELSE [exc |-> FALSE,
               tenths |-> RoundTenths(sz.hi * 1024 + sz.lo, 1024),
               unit |-> UnitNames[i + 1]]

\* The sizes convert_size is run on: 0, and every power of 1024 up to
\* 1024^MaxExp with a small, a middle and the largest leading digit, and a
\* second digit that rounds down, rounds up, is a tie, or carries.
Sizes ==
    {ZeroSize}
      \cup {Size(hi, 0, 0) : hi \in {1, 2, 512, 1023}}
      \cup {Size(hi, lo, e) : hi \in {1, 2, 512, 1023}, lo \in {0, 51, 512, 1023},
                               e \in 1..MaxExp}

\* ------------------------------------------------- convert_size taken alone
SizeDone == "unit" \in DOMAIN text

SizeInit ==
    /\ SessionNew(DefaultArgs)
    /\ remote = [fs |-> [h \in Handles |-> DirFail],
                 acc |-> [h \in Handles |-> [c \in Caps |-> Denied]]]
    /\ call = [handle |-> 1, path |-> "/data", recurse |-> 0]
    /\ ret = Pending
    /\ resps = [c \in Caps |-> Denied]
    /\ perm = PermPending
    /\ size \in Sizes
    /\ text = TextPending
    /\ NoExport

ConvertSizeCall ==
    /\ text = TextPending
    /\ text' = ConvertSizeDigits(size)
    /\ UNCHANGED << sessionVars, remote, call, ret, resps, perm, size, export, parsed >>

SpecSize == SizeInit /\ [][ConvertSizeCall]_vars

\* ------------------------------------------------------- the export parsers
\* A byte string is the sequence of its bytes; a text is a sequence of
\* characters and of the fixed pieces of text the library prints around the
\* fields.  NonUtf8 is a byte that is no UTF-8 (0xff).
NonUtf8 == "<0xff>"
Quote   == "'"
DQuote  == "\""
BSlash  == "\\"

Elems(q) == {q[i] : i \in 1..Len(q)}

\* An export node: ex_dir and the names of its group chain; ex_next is the
\* rest of the sequence the node stands in (as "nextentry" for entries).
ExportNode(dir, groups) == [ex_dir |-> dir, ex_groups |-> groups]

ExportDirs ==
    { << "/", "a" >>, << "/", "b" >>, << "/", "a", Quote, "s" >>,
      << "/", Quote, DQuote >>, << "/", NonUtf8 >> }
GroupChains == { << >>, << << "h" >> >> }
ExportNodes == {ExportNode(d, g) : d \in ExportDirs, g \in GroupChains}
ExportTables == SeqsUpTo(ExportNodes, MaxShares)

\* bytes.decode(): raises on a byte that is no UTF-8.
Decode(b) ==
    IF NonUtf8 \in Elems(b) THEN [exc |-> TRUE, str |-> << >>]
    ELSE [exc |-> FALSE, str |-> b]

RECURSIVE JoinComma(_)
JoinComma(strs) ==
    IF strs = << >> THEN << >>
    ELSE IF Len(strs) = 1 THEN strs[1]
    ELSE strs[1] \o << ",", " " >> \o JoinComma(Tail(strs))

\* group_names (lines 132-142): the decoded names of a group chain.
RECURSIVE GroupNames(_)
GroupNames(groups) ==
    IF groups = << >> THEN [exc |-> FALSE, result |-> << >>]
    ELSE
      LET name == Decode(Head(groups))
          rest == GroupNames(Tail(groups))
      IN  IF name.exc \/ rest.exc THEN [exc |-> TRUE, result |-> << >>]
          ELSE [exc |-> FALSE, result |-> << name.str >> \o rest.result]

\* export_info (lines 118-130).  export_nodes is the chain: its head is the
\* node the for loop visits, its tail that node's ex_next.
RECURSIVE ExportInfo(_)
ExportInfo(export_nodes) ==
    IF export_nodes = << >> THEN [exc |-> FALSE, result |-> << >>]
    ELSE
      LET node   == Head(export_nodes)
          ex_dir == Decode(node.ex_dir)
          names  == GroupNames(node.ex_groups)
          rest   == ExportInfo(Tail(export_nodes))
      IN  IF ex_dir.exc \/ names.exc THEN [exc |-> TRUE, result |-> << >>]
          ELSE IF rest.exc THEN [exc |-> TRUE, result |-> << >>]
          ELSE [exc |-> FALSE,
                result |-> << ex_dir.str \o << " " >> \o JoinComma(names.result) >>
                              \o rest.result]

\* repr() of a byte string, as str() of the export table prints the fields:
\* b'...' unless the bytes hold a quote and no double quote, then b"...";
\* the delimiter and the backslash are escaped, a non-ASCII byte is \xNN.
BytesRepr(b) ==
    LET delim == IF Quote \in Elems(b) /\ DQuote \notin Elems(b) THEN DQuote ELSE Quote
        Esc(c) == IF c = BSlash THEN << BSlash, BSlash >>
                  ELSE IF c = delim THEN << BSlash, c >>
                  ELSE IF c = NonUtf8 THEN << BSlash, "x", "f", "f" >>
                  ELSE << c >>
    IN  << "b", delim >> \o Flatten([i \in 1..Len(b) |-> Esc(b[i])]) \o << delim >>

RECURSIVE GroupsStr(_)
GroupsStr(groups) ==
    IF groups = << >> THEN << "[", "]" >>
    ELSE << "[", "gr_name=" >> \o BytesRepr(Head(groups)) \o << ", gr_next=" >>
            \o GroupsStr(Tail(groups)) \o << "]" >>

\* str(self.mount.export()) (lines 152, 203, 236): the text of the chain, each
\* node with its fields and, nested in it, the text of its ex_next.
RECURSIVE ExportStr(_)
ExportStr(export_nodes) ==
    IF export_nodes = << >> THEN << "[", "]" >>
    ELSE << "[", "ex_dir=" >> \o BytesRepr(Head(export_nodes).ex_dir)
            \o << ", ex_groups=" >> \o GroupsStr(Head(export_nodes).ex_groups)
            \o << ", ex_next=" >> \o ExportStr(Tail(export_nodes)) \o << "]" >>

\* The position of the first quote of txt at or after i, 0 when there is none.
RECURSIVE NextQuote(_, _)
NextQuote(txt, i) ==
    IF i > Len(txt) THEN 0
    ELSE IF txt[i] = Quote THEN i
    ELSE NextQuote(txt, i + 1)

\* reg.findall(output_export) with reg = ex_dir=b'([^']*)' (lines 153-154,
\* 204-205, 237-238): the matches from position i on, left to right, without
\* overlap; a match is the text between ex_dir=b' and the next quote.
RECURSIVE Findall(_, _)
Findall(txt, i) ==
    IF i + 2 > Len(txt) THEN << >>
    ELSE IF txt[i] = "ex_dir=" /\ txt[i + 1] = "b" /\ txt[i + 2] = Quote
              /\ NextQuote(txt, i + 3) # 0
         THEN << SubSeq(txt, i + 3, NextQuote(txt, i + 3) - 1) >>
                 \o Findall(txt, NextQuote(txt, i + 3) + 1)
         ELSE Findall(txt, i + 1)

\* Lines 152-154: shares = list(reg.findall(str(self.mount.export()))).
ParseShares(export_nodes) == Findall(ExportStr(export_nodes), 1)

\* ------------------------------------------- the export parsers taken alone
InfoDone   == "result" \in DOMAIN parsed.info
SharesDone == "result" \in DOMAIN parsed.shares

ExportInit ==
    /\ SessionNew(DefaultArgs)
    /\ remote = [fs |-> [h \in Handles |-> DirFail],
                 acc |-> [h \in Handles |-> [c \in Caps |-> Denied]]]
    /\ call = [handle |-> 1, path |-> "/data", recurse |-> 0]
    /\ ret = Pending
    /\ resps = [c \in Caps |-> Denied]
    /\ perm = PermPending
    /\ NoSize
    /\ export \in ExportTables
    /\ parsed = NotParsed

ExportInfoCall ==
    /\ ~InfoDone
    /\ parsed' = [parsed EXCEPT !.info = ExportInfo(export)]
    /\ UNCHANGED << sessionVars, remote, call, ret, resps, perm, size, text, export >>

ParseSharesCall ==
    /\ ~SharesDone
    /\ parsed' = [parsed EXCEPT !.shares = [exc |-> FALSE, result |-> ParseShares(export)]]
    /\ UNCHANGED << sessionVars, remote, call, ret, resps, perm, size, text, export >>

SpecExport == ExportInit /\ [][ExportInfoCall \/ ParseSharesCall]_vars

\* Lines 216-223 and 264-271: the failure classifier, on the set of known
\* substrings that occur in str(e).
Classify(share, msg) ==
    IF REJECTEDCRED \in msg THEN Ev("fail", "RPC Access denied", share)
    ELSE IF TOOWEAK \in msg THEN Ev("fail", "Kerberos authentication required", share)
    ELSE IF INSUFFICIENT \in msg
         THEN Ev("fail", "Insufficient Permissions for share listing", share)
    ELSE Ev("exception", "unclassified", share)

IsFailureReport(e) == e.lvl \in {"fail", "exception"}

\* What mount.mnt(share, auth) can do: answer with a file handle, answer
\* without "mountinfo" (a KeyError at line 257), raise with some message.
MountOk        == [kind |-> "ok", err |-> NoMarker]
MountMalformed == [kind |-> "malformed", err |-> NoMarker]
MountErrors    ==
    {NoMarker, {REJECTEDCRED}, {TOOWEAK}, {INSUFFICIENT}, {TOOWEAK, INSUFFICIENT}}
MountOutcomes  ==
    {MountOk, MountMalformed} \cup [kind : {"raise"}, err : MountErrors]

\* The file systems a mounted share may turn out to hold in a session: an
\* empty root, files, a file and a directory (listable or not), a malformed
\* entry after a file, and the four ways readdirplus fails on the root.
SessionRoots    ==
    {DirOk(<< >>),
     DirOk(<< Dot, File("a", 1) >>),
     DirOk(<< File("a", 1), Dir("b", 2) >>),
     DirOk(<< File("a", 1), NoHandle(NF3REG) >>)} \cup DirErrors
SessionSystems  ==
    {[h \in Handles |-> IF h = 1 THEN r ELSE s] :
        r \in SessionRoots, s \in {DirOk(<< File("b", 2) >>), DirFail}}
SessionAccess   == [h \in Handles |-> AccessProfiles[h]]

\* What list_dir(handle, share, depth) can return in a session, per share and
\* depth: the walk of every file system of SessionSystems.
WalkOutcome(r) == [ret |-> r.ret, recs |-> r.recs, err |-> r.err]
WalkResults ==
    [s \in ShareNames, d \in 0..MaxDepth |->
        {WalkOutcome(ListDir(f, SessionAccess, 1, s, d)) : f \in SessionSystems}]

\* What the prelude of an operation can meet: portmap.getport raises,
\* nfs3.connect raises, mount.export raises, or all three succeed.
PreludeOutcomes == {"getport", "connect", "export", "ok"}
ExportLists     == SeqsUpTo(ShareNames, MaxShares)

\* One iteration of a share loop, as history.  op: the operation; uid: the
\* UID of the loop; skipped: the share was in the whitelist; listed: the share
\* was reported as success; failed: an exception reached the except clause.
Iter(op, u, share, skipped, listed, failed) ==
    [op |-> op, uid |-> u, share |-> share, skipped |-> skipped,
     listed |-> listed, failed |-> failed]

\* What the remote made of the latest iteration: of the mount ("ok", "raise",
\* "malformed") and of list_dir ("list", "none", "raise"); "-" when not called.
Attempt(mnt, walk) == [mnt |-> mnt, walk |-> walk]

Last(s) == s[Len(s)]

\* Line 252: share in white_list.
InWhiteListNever(wl, share) == FALSE

InWhiteList(wl, share) == \E i \in 1..Len(wl) : wl[i] = share

\* The share loops keep their try/except inside the loop body (lines 160,
\* 209, 251): after an iteration, failed or not, the loop goes on to the
\* next share.  i is the position, n the length of the export list.
NextShareStopOnFailure(i, n, failed) == IF failed THEN n + 1 ELSE i + 1

NextShare(i, n, failed) == i + 1

\* create_conn_obj (lines 36-54).
CreateConnObj ==
    /\ pc = "new"
    /\ \E o \in {"ok", "portmap", "getport", "mount"} :
         IF o = "ok"
         THEN /\ pc' = "idle"
              /\ log' = << >>
         ELSE /\ pc' = "dead"
              /\ log' = << Ev("fail", "Error during Initialization", "") >>
    /\ UNCHANGED << args, auth, nfs3, shares, uid, idx, white_list, mounted, hist,
                    attempt, escaped, callVars >>

\* ------------------------------------------------------------ uid_brute
\* uid_brute (lines 230-240) up to the call of list_exported_shares, and the
\* head of list_exported_shares (lines 243-249) with the first UID set.
UidBruteBegin ==
    /\ pc = "idle"
    /\ hist' = << >>
    /\ attempt' = Attempt("-", "-")
    /\ mounted' = {}
    /\ white_list' = << >>
    /\ uid' = 0
    /\ \E o \in PreludeOutcomes, ex \in ExportLists :
         IF o = "ok"
         THEN /\ pc' = "brute"
              /\ nfs3' = "connected"
              /\ shares' = ex
              /\ idx' = 1
              /\ auth' = [auth EXCEPT !.uid = 0]
              /\ escaped' = FALSE
              /\ log' = << Ev("display", IF args.uid_brute # 0 THEN "up to UID"
                                                               ELSE "with UID", "") >>
         ELSE /\ pc' = "idle"
              /\ nfs3' = IF o = "getport" THEN nfs3
                         ELSE IF o = "connect" THEN "created" ELSE "connected"
              /\ escaped' = TRUE
              /\ log' = << >>
              /\ UNCHANGED << shares, idx, auth >>
    /\ UNCHANGED << args, callVars >>

\* The except clause with its "if not max_uid" guard missing.
BruteFailureReportAlways(max_uid, share, msg) == << Classify(share, msg) >>

\* The except clause of list_exported_shares (lines 262-271).
BruteFailureReport(max_uid, share, msg) ==
    IF max_uid = 0 THEN << Classify(share, msg) >> ELSE << >>

\* One iteration of the share loop of list_exported_shares (lines 250-271).
BruteIter ==
    /\ pc = "brute"
    /\ idx <= Len(shares)
    /\ LET share   == shares[idx]
           max_uid == args.uid_brute
           done(it, att, out, wl, mnt) ==
               /\ hist' = Append(hist, it)
               /\ attempt' = att
               /\ log' = out
               /\ white_list' = wl
               /\ mounted' = mnt
               /\ idx' = NextShare(idx, Len(shares), it.failed)
       IN
       IF InWhiteList(white_list, share)
       THEN done(Iter("brute", uid, share, TRUE, FALSE, FALSE), Attempt("-", "-"),
                 << Ev("debug", "Skipping", share) >>, white_list, mounted)
       ELSE \E m \in MountOutcomes :
              IF m.kind # "ok"
              THEN done(Iter("brute", uid, share, FALSE, FALSE, TRUE),
                        Attempt(m.kind, "-"),
                        BruteFailureReport(max_uid, share, m.err), white_list, mounted)
              ELSE \E w \in WalkResults[share, 1] :
                     IF w.ret = "raise"
                     THEN done(Iter("brute", uid, share, FALSE, FALSE, TRUE),
                               Attempt("ok", "raise"),
                               BruteFailureReport(max_uid, share, w.err),
                               white_list, mounted \cup {share})
                     ELSE IF w.ret = "list"
                     THEN done(Iter("brute", uid, share, FALSE, TRUE, FALSE),
                               Attempt("ok", "list"),
                               << Ev("success", "share", share) >>
                                  \o [i \in 1..Len(w.recs) |->
                                        EvEntry("UID entry", share, auth.uid, w.recs[i])],
                               Append(white_list, share), mounted \cup {share})
                     ELSE done(Iter("brute", uid, share, FALSE, TRUE, TRUE),
                               Attempt("ok", "none"),
                               << Ev("success", "share", share) >>
                                  \o BruteFailureReport(max_uid, share, NoMarker),
                               Append(white_list, share), mounted \cup {share})
    /\ UNCHANGED << pc, args, auth, nfs3, shares, uid, escaped, callVars >>

\* The outer loop with line 249 missing: the UID of auth is left as it was.
BruteNextUidKeepsAuth ==
    /\ pc = "brute"
    /\ idx > Len(shares)
    /\ uid < args.uid_brute
    /\ uid' = uid + 1
    /\ idx' = 1
    /\ log' = << >>
    /\ UNCHANGED << pc, args, auth, nfs3, shares, white_list, mounted, hist, attempt, escaped,
                    callVars >>

\* The outer loop with line 249 setting the group id along with the UID.
BruteNextUidSetsGid ==
    /\ pc = "brute"
    /\ idx > Len(shares)
    /\ uid < args.uid_brute
    /\ uid' = uid + 1
    /\ auth' = [auth EXCEPT !.uid = uid + 1, !.gid = uid + 1]
    /\ idx' = 1
    /\ log' = << >>
    /\ UNCHANGED << pc, args, nfs3, shares, white_list, mounted, hist, attempt, escaped, callVars >>

\* The outer loop of list_exported_shares moves to the next UID (lines 248-249).
BruteNextUid ==
    /\ pc = "brute"
    /\ idx > Len(shares)
    /\ uid < args.uid_brute
    /\ uid' = uid + 1
    /\ auth' = [auth EXCEPT !.uid = uid + 1]
    /\ idx' = 1
    /\ log' = << >>
    /\ UNCHANGED << pc, args, nfs3, shares, white_list, mounted, hist, attempt, escaped, callVars >>

\* The locals of an operation are gone when it returns.
Returns ==
    /\ pc' = "idle"
    /\ shares' = << >>
    /\ uid' = 0
    /\ idx' = 1
    /\ white_list' = << >>
    /\ mounted' = {}
    /\ hist' = << >>
    /\ attempt' = Attempt("-", "-")

\* list_exported_shares and uid_brute return.
UidBruteEnd ==
    /\ pc = "brute"
    /\ idx > Len(shares)
    /\ uid >= args.uid_brute
    /\ Returns
    /\ log' = << >>
    /\ UNCHANGED << args, auth, nfs3, escaped, callVars >>

\* ------------------------------------------------------------------ shares
\* What nfs3.fsstat(handle, auth) can do: answer resok with free and total
\* bytes, answer without "resok" (a KeyError at line 165), raise.
StatOk(f, t)  == [kind |-> "resok", fbytes |-> f, tbytes |-> t]
StatOutcomes  ==
    {StatOk(0, 0), StatOk(512, 2048), StatOk(50000000, 100000000), StatOk(2048, 1024),
     [kind |-> "resfail", fbytes |-> 0, tbytes |-> 0],
     [kind |-> "raise", fbytes |-> 0, tbytes |-> 0]}

\* The access answers the root of a share gives in shares().
RootAccess == {AccessProfiles[i] : i \in 1..Len(AccessProfiles)}

\* The head of shares() or enum_shares() (lines 146-158, 197-207), and what the
\* finally clause does when the head fails: self.nfs3.disconnect() raises
\* AttributeError when self.nfs3 was never assigned.
PreludeFailed(o, report) ==
    /\ pc' = "idle"
    /\ log' = report
    /\ nfs3' = IF o = "getport" /\ nfs3 = "unset" THEN "unset" ELSE "disconnected"
    /\ escaped' = (o = "getport" /\ nfs3 = "unset")
    /\ UNCHANGED << shares, idx >>

SharesBegin ==
    /\ pc = "idle"
    /\ hist' = << >>
    /\ attempt' = Attempt("-", "-")
    /\ mounted' = {}
    /\ \E o \in PreludeOutcomes, ex \in ExportLists :
         IF o = "ok"
         THEN /\ pc' = "shares"
              /\ nfs3' = "connected"
              /\ shares' = ex
              /\ idx' = 1
              /\ escaped' = FALSE
              /\ log' = << Ev("display", "Enumerating NFS Shares with UID", ""),
                           Ev("highlight", "header", ""), Ev("highlight", "rule", "") >>
         ELSE PreludeFailed(o, << Ev("display", "Enumerating NFS Shares with UID", ""),
                                  Ev("fail", "Error on Enumeration NFS Shares", "") >>)
    /\ UNCHANGED << args, auth, uid, white_list, callVars >>

\* The except clause of the share loop of shares() (lines 171-173).
SharesFailureReport(share) ==
    << Ev("fail", "error", share), Ev("highlight", "blank", share) >>

\* The report line of line 170.
SharesLine(share, p, used, total) ==
    [lvl |-> "highlight", what |-> "report", share |-> share, uid |-> 0,
     rec |-> Record(share, p), used |-> used, total |-> total]

\* One iteration of the share loop of shares() (lines 159-173).
SharesIter ==
    /\ pc = "shares"
    /\ idx <= Len(shares)
    /\ LET share == shares[idx]
           failed(mk, mnt) ==
               /\ log' = SharesFailureReport(share)
               /\ hist' = Append(hist, Iter("shares", auth.uid, share, FALSE, FALSE, TRUE))
               /\ attempt' = Attempt(mk, "-")
               /\ mounted' = mnt
               /\ idx' = NextShare(idx, Len(shares), TRUE)
       IN
       \E m \in MountOutcomes :
         IF m.kind # "ok" THEN failed(m.kind, mounted)
         ELSE \E info \in StatOutcomes :
           IF info.kind # "resok" THEN failed("ok", mounted \cup {share})
           ELSE \E rs \in RootAccess, um \in {"ok", "raise"} :
             LET used_space == info.tbytes - info.fbytes
                 p          == GetPermissions(rs)
                 used       == ConvertSize(used_space)
                 total      == ConvertSize(info.tbytes)
             IN
             IF um = "raise" THEN failed("ok", mounted \cup {share})
             ELSE IF used.exc \/ total.exc THEN failed("ok", mounted \ {share})
             ELSE /\ log' = << SharesLine(share, p, used, total) >>
                  /\ hist' = Append(hist, Iter("shares", auth.uid, share, FALSE, TRUE, FALSE))
                  /\ attempt' = Attempt("ok", "-")
                  /\ mounted' = mounted \ {share}
                  /\ idx' = NextShare(idx, Len(shares), FALSE)
    /\ UNCHANGED << pc, args, auth, nfs3, shares, uid, white_list, escaped, callVars >>

\* The loop of shares() or enum_shares() is over: the finally clause
\* disconnects (lines 177-178, 227-228).
SharesEnd ==
    /\ pc \in {"shares", "enum"}
    /\ idx > Len(shares)
    /\ Returns
    /\ nfs3' = "disconnected"
    /\ log' = << >>
    /\ UNCHANGED << args, auth, escaped, callVars >>

\* ------------------------------------------------------------- enum_shares
EnumSharesBegin ==
    /\ pc = "idle"
    /\ hist' = << >>
    /\ attempt' = Attempt("-", "-")
    /\ mounted' = {}
    /\ \E o \in PreludeOutcomes, ex \in ExportLists :
         IF o = "ok"
         THEN /\ pc' = "enum"
              /\ nfs3' = "connected"
              /\ shares' = ex
              /\ idx' = 1
              /\ escaped' = FALSE
              /\ log' = << Ev("display", "Enumerating NFS Shares Directories with UID", "") >>
         ELSE PreludeFailed(o, << Ev("debug", "Error on Listing NFS Shares Directories", ""),
                                  Ev("debug", "It is probably unknown format", "") >>)
    /\ UNCHANGED << args, auth, uid, white_list, callVars >>

\* One iteration of the share loop of enum_shares() (lines 208-223).
EnumIter ==
    /\ pc = "enum"
    /\ idx <= Len(shares)
    /\ LET share == shares[idx]
           done(it, att, out, mnt) ==
               /\ hist' = Append(hist, it)
               /\ attempt' = att
               /\ log' = out
               /\ mounted' = mnt
               /\ idx' = NextShare(idx, Len(shares), it.failed)
       IN
       \E m \in MountOutcomes :
         IF m.kind # "ok"
         THEN done(Iter("enum", auth.uid, share, FALSE, FALSE, TRUE), Attempt(m.kind, "-"),
                   << Classify(share, m.err) >>, mounted)
         ELSE \E w \in WalkResults[share, args.enum_shares] :
                IF w.ret = "raise"
                THEN done(Iter("enum", auth.uid, share, FALSE, FALSE, TRUE),
                          Attempt("ok", "raise"),
                          << Classify(share, w.err) >>, mounted \cup {share})
                ELSE IF w.ret = "list"
                THEN done(Iter("enum", auth.uid, share, FALSE, TRUE, FALSE),
                          Attempt("ok", "list"),
                          << Ev("success", "share", share) >>
                             \o [i \in 1..Len(w.recs) |->
                                   EvEntry("entry", share, auth.uid, w.recs[i])],
                          mounted \cup {share})
                ELSE done(Iter("enum", auth.uid, share, FALSE, TRUE, TRUE),
                          Attempt("ok", "none"),
                          << Ev("success", "share", share), Classify(share, NoMarker) >>,
                          mounted \cup {share})
    /\ UNCHANGED << pc, args, auth, nfs3, shares, uid, white_list, escaped, callVars >>

\* The configurations of a session: every UID ceiling with the listing depth
\* 1, and every listing depth with the UID ceiling 0 (uid_brute reads only
\* args.uid_brute, enum_shares only args.enum_shares), with the initial UID 0;
\* and one with the initial UID 1.
ArgsSet ==
    [uid : {0}, uid_brute : 0..MaxUid, enum_shares : {1}]
      \cup [uid : {0}, uid_brute : {0}, enum_shares : 0..MaxDepth]
      \cup [uid : {1}, uid_brute : {0}, enum_shares : {1}]

Init == (\E a \in ArgsSet : SessionNew(a)) /\ NoCall

Next ==
    \/ CreateConnObj
    \/ UidBruteBegin
    \/ BruteIter
    \/ BruteNextUid
    \/ UidBruteEnd
    \/ SharesBegin
    \/ SharesIter
    \/ SharesEnd
    \/ EnumSharesBegin
    \/ EnumIter

Spec == Init /\ [][Next]_vars

\* ------------------------------------------------------------------ claims
IsPrefix(s, t) == Len(s) <= Len(t) /\ SubSeq(t, 1, Len(s)) = s

Readdirs(calls) == {i \in 1..Len(calls) : calls[i].op = "readdirplus"}

\* C2: get_permissions always returns a complete triple and never raises;
\* each component is true exactly when its own access call answered resok with
\* exactly the requested capability, whatever the other two calls did.
C2_PermissionsIndependent ==
    PermDone =>
        /\ ~perm.raised
        /\ perm.read    = (resps[ACCESS3_READ] = Granted(ACCESS3_READ))
        /\ perm.write   = (resps[ACCESS3_MODIFY] = Granted(ACCESS3_MODIFY))
        /\ perm.execute = (resps[ACCESS3_EXECUTE] = Granted(ACCESS3_EXECUTE))

\* The write check raised, and read and execute were still granted.
C2_Witness ==
    /\ PermDone
    /\ resps[ACCESS3_MODIFY].kind = "raise"
    /\ resps[ACCESS3_EXECUTE].kind = "resok"
    /\ perm.read /\ perm.execute /\ ~perm.write

\* C3: list_dir(handle, path, 0) returns exactly one record, path + "/" with
\* the permissions probed on the handle itself, and issues no readdirplus,
\* whatever the handle contains.
C3_DepthZeroOneRecord ==
    (WalkDone /\ call.recurse = 0) =>
        /\ ret.ret = "list"
        /\ Len(ret.recs) = 1
        /\ ret.recs[1].path = call.path \o "/"
        /\ ret.recs[1].read =
              (remote.acc[call.handle][ACCESS3_READ] = Granted(ACCESS3_READ))
        /\ ret.recs[1].write =
              (remote.acc[call.handle][ACCESS3_MODIFY] = Granted(ACCESS3_MODIFY))
        /\ ret.recs[1].execute =
              (remote.acc[call.handle][ACCESS3_EXECUTE] = Granted(ACCESS3_EXECUTE))
        /\ Readdirs(ret.calls) = {}
        /\ ret.calls = AccessCalls(call.handle)

\* Depth 0 on a root that holds two entries, one of them a directory.
C3_Witness ==
    /\ WalkDone
    /\ call.recurse = 0
    /\ remote.fs[call.handle].kind = "resok"
    /\ Len(remote.fs[call.handle].entries) = 2
    /\ \E i \in 1..2 : remote.fs[call.handle].entries[i] = Dir("a", 2)
    /\ Len(ret.recs) = 1

\* A file entry as the remote reports it when it reports attributes: name,
\* attributes with a type other than directory, handle and next link.
IsFileEntry(e) == e \in {File("a", 1), File("b", 2)}
IsDotEntry(e)  == e \in {Dot, DotDot}

\* The listing of the root succeeded and holds only files (and "." / "..").
FilesOnlyRoot ==
    /\ remote.fs[call.handle].kind = "resok"
    /\ \A i \in 1..Len(remote.fs[call.handle].entries) :
          \/ IsFileEntry(remote.fs[call.handle].entries[i])
          \/ IsDotEntry(remote.fs[call.handle].entries[i])
NumFiles ==
    Cardinality({i \in 1..Len(remote.fs[call.handle].entries) :
                    IsFileEntry(remote.fs[call.handle].entries[i])})

C5_PartialResultsKept ==
    (WalkDone /\ ret.caught /\ ret.seen # << >>) =>
        (ret.ret = "list" /\ IsPrefix(ret.seen, ret.recs))

\* The log holds the output of the latest iteration of the running loop.
LatestIter(op) == pc = op /\ idx >= 2 /\ hist # << >>

Successes(share) ==
    {i \in 1..Len(log) : log[i].lvl = "success" /\ log[i].share = share}
FailureReports ==
    {i \in 1..Len(log) : IsFailureReport(log[i])}

\* C1: in list_exported_shares a share is reported as success at most once in
\* the whole run, and after it succeeded (was added to the whitelist) every
\* later iteration for it, at the same or a larger UID, is a skip: no mount
\* and no walk is attempted.
C1_ListedOnceNeverRetried ==
    pc = "brute" =>
        /\ \A i, j \in 1..Len(hist) :
              (i < j /\ hist[i].share = hist[j].share /\ hist[i].listed) =>
                  (hist[j].skipped /\ ~hist[j].listed /\ ~hist[j].failed)
        /\ \A i \in 1..Len(hist) :
              hist[i].listed => InWhiteList(white_list, hist[i].share)
        /\ LatestIter("brute") =>
              /\ Cardinality(Successes(Last(hist).share))
                    = (IF Last(hist).listed THEN 1 ELSE 0)
              /\ Last(hist).skipped => (attempt = Attempt("-", "-") /\ FailureReports = {})

\* A share listed at UID 0 is skipped at UID 2.
C1_Witness ==
    /\ pc = "brute"
    /\ \E i, j \in 1..Len(hist) :
          /\ i < j
          /\ hist[i].share = hist[j].share
          /\ hist[i].listed /\ hist[i].uid = 0
          /\ hist[j].skipped /\ hist[j].uid = 2

\* C6 as stated: a failed attempt of list_exported_shares is reported to the
\* sink unless max_uid = 0.
C6_Original ==
    (LatestIter("brute") /\ Last(hist).failed) =>
        ((FailureReports # {}) <=> (args.uid_brute # 0))

\* C6 as amended: a failed attempt of list_exported_shares is classified and
\* reported to the sink exactly when max_uid = 0; for max_uid > 0 the report
\* is suppressed.  An attempt that did not fail reports no failure.
C6_FailureReportedOnlyForSingleUid ==
    LatestIter("brute") =>
        /\ (Last(hist).failed /\ args.uid_brute = 0) =>
              /\ Cardinality(FailureReports) = 1
              /\ \A i \in FailureReports : log[i].share = Last(hist).share
        /\ (Last(hist).failed /\ args.uid_brute # 0) => FailureReports = {}
        /\ ~Last(hist).failed => FailureReports = {}

\* max_uid = 0, the mount is refused with AUTH_REJECTEDCRED, and the sink
\* gets "RPC Access denied".
C6_Witness ==
    /\ LatestIter("brute")
    /\ args.uid_brute = 0
    /\ Last(hist).failed
    /\ attempt.mnt = "raise"
    /\ log = << Ev("fail", "RPC Access denied", Last(hist).share) >>

\* C7: first successful UID wins.  A share is listed at the first UID at
\* which its mount and its walk return: every smaller UID was tried on it and
\* failed, it was not listed before, and its success and entries go to the
\* sink under that UID, which is the UID of auth.
C7_FirstSuccessfulUidWins ==
    pc = "brute" =>
        /\ \A i \in 1..Len(hist) :
              hist[i].listed =>
                  /\ \A j \in 1..(i - 1) :
                        hist[j].share = hist[i].share =>
                            (hist[j].failed /\ ~hist[j].listed /\ hist[j].uid <= hist[i].uid)
                  /\ \A u \in 0..(hist[i].uid - 1) :
                        \E j \in 1..(i - 1) :
                            hist[j].share = hist[i].share /\ hist[j].uid = u
        /\ (hist # << >> /\ ~Last(hist).skipped) =>
              (Last(hist).listed <=> (attempt.mnt = "ok" /\ attempt.walk \in {"list", "none"}))
        /\ (LatestIter("brute") /\ Last(hist).listed) =>
              /\ Last(hist).uid = auth.uid
              /\ log[1] = Ev("success", "share", Last(hist).share)
              /\ \A i \in 1..Len(log) :
                    log[i].what = "UID entry" =>
                        (log[i].uid = Last(hist).uid /\ log[i].share = Last(hist).share)

\* The scenario of the specification: /data refused and /backup listed at
\* UID 0, /data listed and /backup skipped at UID 1.
C7_Witness ==
    /\ pc = "brute"
    /\ shares = << "/data", "/backup" >>
    /\ Len(hist) = 4
    /\ hist[1] = Iter("brute", 0, "/data", FALSE, FALSE, TRUE)
    /\ hist[2] = Iter("brute", 0, "/backup", FALSE, TRUE, FALSE)
    /\ hist[3] = Iter("brute", 1, "/data", FALSE, TRUE, FALSE)
    /\ hist[4] = Iter("brute", 1, "/backup", TRUE, FALSE, FALSE)
    /\ auth.uid = 1
    /\ white_list = << "/backup", "/data" >>

\* C8: a share is added to the whitelist and reported as success only when
\* its mount and walk succeeded, and then no failure is raised for that
\* attempt and none is reported.
C8_ListedMeansNoFailure ==
    (LatestIter("brute") /\ Last(hist).listed) =>
        /\ attempt = Attempt("ok", "list")
        /\ ~Last(hist).failed
        /\ FailureReports = {}

\* C9: a failure for one share never ends a share loop.  In every operation
\* the iterations done so far are exactly the positions before the current
\* one, in order, whatever failed; a share is passed over only by the
\* whitelist of the brute-forcer; no exception leaves a loop; shares() reports
\* a failing share with its permission fields blanked.
C9_FailureIsolation ==
    /\ pc \in {"shares", "enum"} =>
          /\ Len(hist) = idx - 1
          /\ idx <= Len(shares) + 1
          /\ \A k \in 1..Len(hist) : hist[k].share = shares[k] /\ ~hist[k].skipped
    /\ pc = "brute" =>
          /\ Len(hist) = uid * Len(shares) + idx - 1
          /\ idx <= Len(shares) + 1
          /\ \A k \in 1..Len(hist) :
                /\ hist[k].share = shares[((k - 1) % Len(shares)) + 1]
                /\ hist[k].uid = (k - 1) \div Len(shares)
                /\ hist[k].skipped =>
                      \E j \in 1..(k - 1) : hist[j].share = hist[k].share /\ hist[j].listed
    /\ pc \in {"shares", "enum", "brute"} => ~escaped
    /\ (LatestIter("shares") /\ Last(hist).failed) =>
          log = << Ev("fail", "error", Last(hist).share),
                   Ev("highlight", "blank", Last(hist).share) >>

\* In shares() the first share fails after its mount and the second one is
\* still mounted and reported.
C9_Witness ==
    /\ pc = "shares"
    /\ Len(hist) = 2
    /\ hist[1].failed
    /\ hist[2].listed
    /\ log[1].what = "report"

\* C10: after a successful create_conn_obj no exception leaves shares(),
\* enum_shares() or uid_brute().
C10_NoEscape == ~escaped

\* The paths list_dir can build below base: at most n components drawn from
\* comps, each joined with "/".
RECURSIVE PathsBelow(_, _, _)
PathsBelow(base, comps, n) ==
    IF n = 0 THEN {base}
    ELSE LET shorter == PathsBelow(base, comps, n - 1)
         IN  shorter \cup {p \o "/" \o c : p \in shorter, c \in comps}

WithSlash(paths) == paths \cup {p \o "/" : p \in paths}

\* The paths below the path of the call made of entry names other than "."
\* and "..", and those with "." or ".." as a component.
CleanTable ==
    [b \in ShareNames, k \in 0..MaxDepth |-> WithSlash(PathsBelow(b, Names, k))]
DotTable ==
    [b \in ShareNames |->
        WithSlash(PathsBelow(b, Names \cup {".", ".."}, MaxDepth)) \ CleanTable[b, MaxDepth]]
CleanPaths == CleanTable[call.path, MaxDepth]
DotPaths   == DotTable[call.path]

\* C11: list_dir never includes an entry named "." or ".." in its result, at
\* any depth and for any entry chain: no record has "." or ".." as a component
\* of its path below the path of the call.
C11_NoDotEntries ==
    WalkDone =>
        \A i \in 1..Len(ret.recs) :
            ret.recs[i].path \in CleanPaths /\ ret.recs[i].path \notin DotPaths

\* The root answers ".", ".." and nothing else is lost: "." then a file,
\* listed at depth 1, gives the record of the file alone.
C11_Witness ==
    /\ WalkDone
    /\ call.recurse = 1
    /\ remote.fs[call.handle] = DirOk(<< Dot, File("a", 1) >>)
    /\ ret.ret = "list"
    /\ Len(ret.recs) = 1
    /\ ret.recs[1].path = call.path \o "/a"


\* The depth-first, sibling-chain order: the records of a listing are those of
\* its first entry, then those of its second entry, and so on; the records of
\* an expanded directory are the depth-first records of its own listing; every
\* other reported entry has one record.
RECURSIVE DepthFirst(_, _, _, _, _)
DepthFirst(fs, acc, handle, path, depth) ==
    IF depth = 0 THEN << Record(path \o "/", GetPermissions(acc[handle])) >>
    ELSE
      LET entries == fs[handle].entries
          OfEntry(e) ==
              IF ~e.hasName \/ e.name \in {".", ".."} \/ ~e.present THEN << >>
              ELSE IF e.type = NF3DIR
                   THEN DepthFirst(fs, acc, e.handle, path \o "/" \o e.name, depth - 1)
                   ELSE << Record(path \o "/" \o e.name, GetPermissions(acc[e.handle])) >>
      IN  Flatten([i \in 1..Len(entries) |-> OfEntry(entries[i])])

\* No two entries of the listing of the root carry the same name.
DistinctRootNames ==
    \A i, j \in 1..Len(remote.fs[call.handle].entries) :
        (i # j) =>
            remote.fs[call.handle].entries[i].name # remote.fs[call.handle].entries[j].name

\* C12: the records returned by list_dir are in depth-first, then
\* sibling-chain order: the records of an entry (its own record, or all the
\* records of its subtree when it is an expanded directory) come before those
\* of every later sibling, and no entry is reported twice (one record per
\* reported entry; distinct paths when the sibling names are distinct).
C12_DepthFirstOrder ==
    (WalkDone /\ ret.ret = "list") =>
        /\ ret.recs = DepthFirst(remote.fs, remote.acc, call.handle, call.path, call.recurse)
        /\ DistinctRootNames =>
              \A i, j \in 1..Len(ret.recs) : (i # j) => ret.recs[i].path # ret.recs[j].path

\* A directory holding a file, then a file: the record of the file inside the
\* directory comes before the record of the later sibling.
C12_Witness ==
    /\ WalkDone
    /\ call.recurse = 2
    /\ remote.fs[1] = DirOk(<< Dir("a", 2), File("b", 2) >>)
    /\ remote.fs[2] = DirOk(<< File("b", 2) >>)
    /\ ret.ret = "list"
    /\ Len(ret.recs) = 2
    /\ ret.recs[1].path = call.path \o "/a/b"
    /\ ret.recs[2].path = call.path \o "/b"


UnitSuffixes == {UnitNames[i] : i \in 1..Len(UnitNames)}

\* C13: convert_size never raises for a non-negative size and always returns
\* a numeric prefix followed by one of the unit suffixes B .. YB, including
\* for sizes whose unit index lies beyond YB (1024^9 and more).
C13_ConvertSizeTotal ==
    SizeDone => (~text.exc /\ text.unit \in UnitSuffixes /\ text.tenths >= 0)


\* C14: the export parser flattens a linked chain of export nodes into a
\* sequence with exactly one element per node, in chain order (the element of
\* a node is, for the findall, its directory; for export_info, its directory,
\* a space and its group names), and returns an empty sequence without error
\* for an empty export table.
C14_ExportFlattened ==
    /\ SharesDone =>
          /\ ~parsed.shares.exc
          /\ Len(parsed.shares.result) = Len(export)
          /\ \A i \in 1..Len(export) : parsed.shares.result[i] = export[i].ex_dir
    /\ InfoDone =>
          /\ ~parsed.info.exc
          /\ Len(parsed.info.result) = Len(export)
          /\ \A i \in 1..Len(export) :
                parsed.info.result[i] =
                    export[i].ex_dir \o << " " >> \o JoinComma(export[i].ex_groups)


\* The entries of the listing of the root, and those of them that list_dir
\* expands when depth is left: attributes present and of type directory.
RootEntries == remote.fs[call.handle].entries
IsExpanded(e) == e.present /\ e.hasType /\ e.type = NF3DIR

\* C15: in list_dir with remaining depth > 0, every entry of the listing
\* other than "." and ".." contributes to the result: unless it is expanded
\* recursively it yields exactly one record, also when its type/handle
\* metadata is absent; no such entry is silently dropped.  (Per name: as many
\* records carry the path of the name as entries that are not expanded do.)
C15_EveryEntryContributes ==
    (WalkDone /\ call.recurse > 0 /\ ret.ret = "list") =>
        \A n \in Names :
            Cardinality({j \in 1..Len(ret.recs) : ret.recs[j].path = call.path \o "/" \o n})
              = Cardinality({i \in 1..Len(RootEntries) :
                                /\ RootEntries[i].hasName
                                /\ RootEntries[i].name = n
                                /\ ~IsExpanded(RootEntries[i])})


\* The directories exactly k levels below the directory of handle and path,
\* in depth-first order: the entries, k listings down, that carry a name
\* other than "." and "..", attributes of type directory and a handle.
RECURSIVE DirsAtLevel(_, _, _, _)
DirsAtLevel(fs, handle, path, k) ==
    IF k = 0 THEN << [handle |-> handle, path |-> path] >>
    ELSE
      LET entries == fs[handle].entries
          Below(e) ==
              IF e.hasName /\ e.name \notin {".", ".."} /\ IsExpanded(e) /\ e.hasHandle
              THEN DirsAtLevel(fs, e.handle, path \o "/" \o e.name, k - 1)
              ELSE << >>
      IN  Flatten([i \in 1..Len(entries) |-> Below(entries[i])])

\* A record of a directory reported and not listed: its path ends in "/".
DirPathTable ==
    [b \in ShareNames |-> {p \o "/" : p \in PathsBelow(b, Names, MaxDepth)}]
IsDirRecord(r) == r.path \in DirPathTable[call.path]

\* C16: depth budget.  list_dir(root, path, K) with K >= 1 issues readdirplus
\* only on directories fewer than K levels below the root (the root first),
\* returns no record for a node more than K levels below the root, and reports
\* the directories reached exactly K levels below the root, and only those,
\* each as exactly one permission-probed record whose path ends in "/".
C16_DepthBudget ==
    (WalkDone /\ call.recurse >= 1) =>
        /\ ret.calls[1] = ReaddirCall(call.handle, call.recurse)[1]
        /\ \A i \in Readdirs(ret.calls) :
              /\ ret.calls[i].arg \in 1..call.recurse
              /\ \E d \in Elems(DirsAtLevel(remote.fs, call.handle, call.path,
                                            call.recurse - ret.calls[i].arg)) :
                    d.handle = ret.calls[i].handle
        /\ \A j \in 1..Len(ret.recs) :
              ret.recs[j].path \in CleanTable[call.path, call.recurse]
        /\ ret.ret = "list" =>
              LET dirs == DirsAtLevel(remote.fs, call.handle, call.path, call.recurse)
              IN  SelectSeq(ret.recs, IsDirRecord)
                    = [j \in 1..Len(dirs) |->
                         Record(dirs[j].path \o "/", GetPermissions(remote.acc[dirs[j].handle]))]

\* Depth 2 on a root whose directory "a" holds the directory "b", which is the
\* root again: "a" is listed, "b" is reported as the one record "/a/b/" and
\* not listed.
C16_Witness ==
    /\ WalkDone
    /\ call.recurse = 2
    /\ remote.fs[1] = DirOk(<< Dir("a", 2) >>)
    /\ remote.fs[2] = DirOk(<< Dir("b", 1) >>)
    /\ ret.ret = "list"
    /\ Len(ret.recs) = 1
    /\ ret.recs[1].path = call.path \o "/a/b/"
    /\ Cardinality(Readdirs(ret.calls)) = 2


\* C17: in shares(), mount and unmount are strictly paired per share: every
\* successful mount is followed by an unmount before the next share is
\* mounted (between two iterations of the loop no share is mounted), also
\* when the statistics query, the permission probe or the report fails.
C17_MountUnmountPaired ==
    pc = "shares" => mounted = {}


\* C18: the identity context is changed only by the brute-forcer and only in
\* its UID field: in every step of a session the group id, the auxiliary
\* group ids, the flavor and the client token of self.auth keep their values,
\* and a step that changes the UID is a step of list_exported_shares.
C18_IdentityFrame ==
    [][ /\ auth'.flavor = auth.flavor
        /\ auth'.machine_name = auth.machine_name
        /\ auth'.gid = auth.gid
        /\ auth'.aux_gid = auth.aux_gid
        /\ auth'.uid # auth.uid => (pc \in {"idle", "brute"} /\ pc' = "brute")
      ]_vars

\* A session begun with UID 1 ran the brute-forcer, and shares() now runs
\* with the UID the brute-forcer left behind and the other fields as __init__
\* set them.
C18_Witness ==
    /\ pc = "shares"
    /\ hist # << >>
    /\ args.uid = 1
    /\ auth.uid = 0
    /\ auth = [InitAuth(args.uid) EXCEPT !.uid = 0]


RECURSIVE Power(_, _)
Power(b, n) == IF n = 0 THEN 1 ELSE b * Power(b, n - 1)

\* The length of the longest sibling chain the remote answers with.
LongestChain ==
    LET lens == {Len(remote.fs[h].entries) : h \in Handles}
    IN  CHOOSE m \in lens : \A l \in lens : l <= m

\* C19: list_dir(root, path, K) terminates for every K >= 0 when the sibling
\* chains are finite, even if the directory handles form a cycle: the depth
\* budget alone bounds the readdirplus queries.  Every query is issued with
\* 1..K levels left, at most B^(K - a) of them with a levels left (B the
\* longest chain), and none when K = 0.
C19_BudgetBoundsQueries ==
    WalkDone =>
        /\ \A i \in Readdirs(ret.calls) : ret.calls[i].arg \in 1..call.recurse
        /\ \A a \in 1..call.recurse :
              Cardinality({i \in Readdirs(ret.calls) : ret.calls[i].arg = a})
                <= Power(LongestChain, call.recurse - a)
        /\ call.recurse = 0 => Readdirs(ret.calls) = {}

\* The root holds itself twice, as "a" and as "b": at depth 2 it is queried
\* once as the root and twice one level down, and the walk returns the four
\* directories two levels down.
C19_Witness ==
    /\ WalkDone
    /\ call.recurse = 2
    /\ remote.fs[1] = DirOk(<< Dir("a", 1), Dir("b", 1) >>)
    /\ ret.ret = "list"
    /\ Cardinality(Readdirs(ret.calls)) = 3
    /\ \A i \in Readdirs(ret.calls) : ret.calls[i].handle = 1
    /\ Len(ret.recs) = 4


\* C20: in enum_shares() each share gets exactly one outcome per iteration:
\* it is reported as success or as a failure, never as both, whatever fails
\* while its mount or any level of its walk is processed.
C20_OneOutcomePerShare ==
    LatestIter("enum") =>
        /\ Cardinality(Successes(Last(hist).share)) + Cardinality(FailureReports) = 1
        /\ ~(Last(hist).listed /\ Last(hist).failed)


====
